---- MODULE Spec2Model ----
(***************************************************************************)
(* A model of tools/lope_utils.py of lopecode-dev: the LopeModuleParser    *)
(* markup extractor (start/end/data callbacks), the extract_cells cell     *)
(* scanner, the list-cells / read-cell / read-module commands and the      *)
(* manifest generator.                                                     *)
(*                                                                         *)
(* Text is a sequence of one-character strings.  Offsets into text are the *)
(* 0-based offsets of the Python code; text[k] of Python is src[k + 1].    *)
(***************************************************************************)
EXTENDS Integers, Sequences, FiniteSets, TLC

VARIABLES
    parser,         \* the LopeModuleParser instance (its five fields)
    events,         \* history: the callbacks invoked on the parser so far
    module_source,  \* the argument of extract_cells
    cells,          \* the list returned by extract_cells
    argv,           \* the command line of a list-cells/read-cell/read-module run
    stdout,         \* the lines printed by the command
    exit_code,      \* the status of the command: "running", 0 or 1
    html_files,     \* the documents generate_manifest iterates over
    manifest,       \* the manifest dictionary being built
    next_file,      \* generate_manifest: index of the next document of the loop
    pc              \* position of the running operation

vars == <<parser, events, module_source, cells, argv, stdout, exit_code,
          html_files, manifest, next_file, pc>>

(***************************************************************************)
(* Bounds of the model.                                                    *)
(***************************************************************************)
MaxEvents == 5
MaxFileEvents == 3
MaxBody == 5
MaxParams == 6
PadSlack == 2
MaxBlocks == 2
MaxQuery == 2
MaxFiles == 3

(***************************************************************************)
(* Python values.                                                          *)
(***************************************************************************)
None == "None"

EmptyDict == [k \in {} |-> ""]

\* d.get(k, default)
Get(d, k, default) == IF k \in DOMAIN d THEN d[k] ELSE default

\* d[k] = v
Put(d, k, v) == [x \in (DOMAIN d) \cup {k} |-> IF x = k THEN v ELSE d[x]]

\* dict(attrs) for a list of (name, value) pairs: the last pair of a name wins
dict(attrs) ==
    [k \in {attrs[i][1] : i \in DOMAIN attrs} |->
        LET last == CHOOSE i \in DOMAIN attrs :
                        /\ attrs[i][1] = k
                        /\ \A j \in DOMAIN attrs : attrs[j][1] = k => j <= i
        IN  attrs[last][2]]

\* "".join(chunks)
RECURSIVE Join(_)
Join(chunks) ==
    IF chunks = <<>> THEN <<>> ELSE Head(chunks) \o Join(Tail(chunks))

(***************************************************************************)
(* LopeModuleParser                                                        *)
(***************************************************************************)
NewParser ==
    [modules |-> EmptyDict, files |-> <<>>, current_tag |-> None,
     current_attrs |-> EmptyDict, current_data |-> <<>>]

\* faulty variant of handle_starttag that keeps the text collected so far;
\* C10_OnlyDataBetween tells it from the code
handle_starttag_keeps_data(self, tag, attrs) ==
    [self EXCEPT !.current_tag = tag,
                 !.current_attrs = dict(attrs)]

handle_starttag(self, tag, attrs) ==
    [self EXCEPT !.current_tag = tag,
                 !.current_attrs = dict(attrs),
                 !.current_data = <<>>]

\* faulty variant of FileRecord that reads the id without a default;
\* C9_MissingAttributesDefault tells it from the code
FileRecordIdWithoutDefault(attrs, content) ==
    [id |-> Get(attrs, "id", None),
     module |-> Get(attrs, "module", ""),
     file |-> Get(attrs, "file", ""),
     mime |-> Get(attrs, "mime", ""),
     size |-> Len(content)]

\* the record appended for a lope-file block
FileRecord(attrs, content) ==
    [id |-> Get(attrs, "id", ""),
     module |-> Get(attrs, "module", ""),
     file |-> Get(attrs, "file", ""),
     mime |-> Get(attrs, "mime", ""),
     size |-> Len(content)]

\* the key a lope-module block is stored under
ModuleKey(attrs) == Get(attrs, "id", "unknown")

\* faulty variant of RecordScript that keeps the first content stored under
\* a module id; C2_ModulesLastWriteWins tells it from the code
RecordScriptKeepsFirst(self) ==
    LET script_type == Get(self.current_attrs, "type", "")
        content == Join(self.current_data)
        key == ModuleKey(self.current_attrs)
    IN  IF script_type = "lope-module"
        THEN IF key \in DOMAIN self.modules THEN self
             ELSE [self EXCEPT !.modules = Put(self.modules, key, content)]
        ELSE IF script_type = "lope-file"
        THEN [self EXCEPT !.files =
                 Append(self.files, FileRecord(self.current_attrs, content))]
        ELSE self

\* the branch of handle_endtag taken for a closing script tag
RecordScript(self) ==
    LET script_type == Get(self.current_attrs, "type", "")
        content == Join(self.current_data)
    IN  IF script_type = "lope-module"
        THEN [self EXCEPT !.modules =
                 Put(self.modules, ModuleKey(self.current_attrs), content)]
        ELSE IF script_type = "lope-file"
        THEN [self EXCEPT !.files =
                 Append(self.files, FileRecord(self.current_attrs, content))]
        ELSE self

handle_endtag(self, tag) ==
    LET recorded == IF tag = "script" /\ self.current_tag = "script"
                    THEN RecordScript(self) ELSE self
    IN  [recorded EXCEPT !.current_tag = None,
                         !.current_attrs = EmptyDict,
                         !.current_data = <<>>]

handle_data(self, data) ==
    IF self.current_tag = "script"
    THEN [self EXCEPT !.current_data = Append(self.current_data, data)]
    ELSE self

(***************************************************************************)
(* The callbacks as events, and a document as the sequence of callbacks    *)
(* HTMLParser.feed makes for it.                                           *)
(***************************************************************************)
StartEv(tag, attrs) == [ev |-> "start", tag |-> tag, attrs |-> attrs, data |-> <<>>]
EndEv(tag) == [ev |-> "end", tag |-> tag, attrs |-> <<>>, data |-> <<>>]
DataEv(data) == [ev |-> "data", tag |-> "", attrs |-> <<>>, data |-> data]

Dispatch(self, e) ==
    IF e.ev = "start" THEN handle_starttag(self, e.tag, e.attrs)
    ELSE IF e.ev = "end" THEN handle_endtag(self, e.tag)
    ELSE handle_data(self, e.data)

RECURSIVE Feed(_, _)
Feed(self, evs) ==
    IF evs = <<>> THEN self ELSE Feed(Dispatch(self, Head(evs)), Tail(evs))

\* parse_notebook: a fresh parser fed the whole document
parse_notebook(doc) == Feed(NewParser, doc)

(***************************************************************************)
(* extract_cells.  Its pattern is: the word const, whitespace, a name that *)
(* is an underscore and one or more word characters, optional whitespace,  *)
(* an equals sign, optional whitespace, the word function, an optional     *)
(* star, optional whitespace, an optional word, optional whitespace, an    *)
(* opening parenthesis, any characters but a closing parenthesis, a        *)
(* closing parenthesis, optional whitespace, an opening brace.  Each       *)
(* repetition is followed by a character outside its class, so the greedy  *)
(* match never backtracks and is computed left to right.                   *)
(***************************************************************************)
PREVIEW_LIMIT == 200

Ellipsis == <<".", ".", ".">>

Lower == {"a", "b", "c", "d", "e", "f", "g", "h", "i", "j", "k", "l", "m",
          "n", "o", "p", "q", "r", "s", "t", "u", "v", "w", "x", "y", "z"}
Digit == {"0", "1", "2", "3", "4", "5", "6", "7", "8", "9"}

\* \s and \w
IsSpace(c) == c \in {" ", "\t", "\n", "\r"}
IsWord(c) == c \in Lower \cup Digit \cup {"_"}

KwConst == <<"c", "o", "n", "s", "t">>
KwFunction == <<"f", "u", "n", "c", "t", "i", "o", "n">>

\* the character at 1-based index i, "" past either end
CharAt(src, i) == IF i \in 1..Len(src) THEN src[i] ELSE ""

\* the index after literal lit when it starts at index i, else 0
Lit(src, i, lit) ==
    IF i >= 1 /\ i + Len(lit) - 1 <= Len(src)
       /\ SubSeq(src, i, i + Len(lit) - 1) = lit
    THEN i + Len(lit) ELSE 0

\* the first index from i on that is not whitespace / not a word character /
\* a closing parenthesis (Len(src) + 1 when there is none)
RECURSIVE SkipSpace(_, _)
SkipSpace(src, i) ==
    IF i <= Len(src) /\ IsSpace(src[i]) THEN SkipSpace(src, i + 1) ELSE i

RECURSIVE SkipWord(_, _)
SkipWord(src, i) ==
    IF i <= Len(src) /\ IsWord(src[i]) THEN SkipWord(src, i + 1) ELSE i

RECURSIVE SkipToParen(_, _)
SkipToParen(src, i) ==
    IF i <= Len(src) /\ src[i] # ")" THEN SkipToParen(src, i + 1) ELSE i

NoMatch == [ok |-> FALSE, start |-> 0, end |-> 0, name |-> <<>>, deps_str |-> <<>>]

\* the match of the pattern that starts at 1-based index i, if there is one;
\* start and end are match.start() and match.end() as 0-based offsets
MatchAt(src, i) ==
    LET p1 == Lit(src, i, KwConst)
        p2 == SkipSpace(src, p1)
        p3 == SkipWord(src, p2 + 1)
        p4 == SkipSpace(src, p3)
        p5 == SkipSpace(src, p4 + 1)
        p6 == Lit(src, p5, KwFunction)
        p7 == IF CharAt(src, p6) = "*" THEN p6 + 1 ELSE p6
        p8 == SkipSpace(src, p7)
        p9 == SkipWord(src, p8)
        p10 == SkipSpace(src, p9)
        p11 == SkipToParen(src, p10 + 1)
        p12 == SkipSpace(src, p11 + 1)
    IN  IF /\ p1 # 0
           /\ p2 > p1
           /\ CharAt(src, p2) = "_"
           /\ p3 > p2 + 1
           /\ CharAt(src, p4) = "="
           /\ p6 # 0
           /\ CharAt(src, p10) = "("
           /\ CharAt(src, p11) = ")"
           /\ CharAt(src, p12) = "{"
        THEN [ok |-> TRUE, start |-> i - 1, end |-> p12,
              name |-> SubSeq(src, p2, p3 - 1),
              deps_str |-> SubSeq(src, p10 + 1, p11 - 1)]
        ELSE NoMatch

\* the 1-based indices from i on at which the pattern matches
MatchStarts(src, i) == {j \in i..Len(src) : MatchAt(src, j).ok}

\* re.finditer(pattern, src): the non-overlapping matches, left to right,
\* each the leftmost match that starts at or after the end of the one before;
\* searching on from 1-based index i
RECURSIVE finditer(_, _)
finditer(src, i) ==
    LET starts == MatchStarts(src, i)
    IN  IF starts = {} THEN <<>>
        ELSE LET m == MatchAt(src, CHOOSE j \in starts : \A k \in starts : j <= k)
             IN  <<m>> \o finditer(src, m.end + 1)

\* s.split(","): the pieces between the commas, one more than there are commas
RECURSIVE Split(_, _)
Split(s, piece) ==
    IF s = <<>> THEN <<piece>>
    ELSE IF Head(s) = "," THEN <<piece>> \o Split(Tail(s), <<>>)
    ELSE Split(Tail(s), Append(piece, Head(s)))

\* s.strip()
RECURSIVE Strip(_)
Strip(s) ==
    IF s = <<>> THEN s
    ELSE IF IsSpace(Head(s)) THEN Strip(Tail(s))
    ELSE IF IsSpace(s[Len(s)]) THEN Strip(SubSeq(s, 1, Len(s) - 1))
    ELSE s

\* faulty variant of KeepDep that tests the piece before stripping it;
\* C7_DependenciesSplitTrimFilter tells it from the code
KeepDepUnstripped(d) == d # <<>>

\* [d.strip() for d in deps_str.split(',') if d.strip()]
KeepDep(d) == Strip(d) # <<>>

RECURSIVE StripAll(_)
StripAll(pieces) ==
    IF pieces = <<>> THEN <<>>
    ELSE <<Strip(Head(pieces))>> \o StripAll(Tail(pieces))

Dependencies(deps_str) == StripAll(SelectSeq(Split(deps_str, <<>>), KeepDep))

\* faulty variant of BraceStep that does not count nested opening braces;
\* C1_EndAfterBalancingBrace tells it from the code
BraceStepIgnoresOpen(brace_count, c) ==
    IF c = "}" THEN brace_count - 1 ELSE brace_count

\* one step of the brace loop: the new brace_count after reading character c
BraceStep(brace_count, c) ==
    IF c = "{" THEN brace_count + 1
    ELSE IF c = "}" THEN brace_count - 1
    ELSE brace_count

\* the variables of the brace loop
LoopState(pos, brace_count) == [pos |-> pos, brace_count |-> brace_count]

\* while pos < len(module_source) and brace_count > 0
LoopCondition(src, st) == st.pos < Len(src) /\ st.brace_count > 0

\* one pass through the while statement: its body when the condition holds
WhileStep(src, st) ==
    IF LoopCondition(src, st)
    THEN LoopState(st.pos + 1, BraceStep(st.brace_count, src[st.pos + 1]))
    ELSE st

WhileStep4(src, st) == WhileStep(src, WhileStep(src, WhileStep(src, WhileStep(src, st))))

\* the while statement run to its end, eight passes to a level of recursion
RECURSIVE WhileLoop(_, _)
WhileLoop(src, st) ==
    IF LoopCondition(src, st)
    THEN WhileLoop(src, WhileStep4(src, WhileStep4(src, st)))
    ELSE st

\* faulty variant of ScanBraces that answers -1 when the text ends inside the
\* braces; C6_UnbalancedEndsAtLength tells it from the code
ScanBracesOrMinusOne(src, pos, brace_count) ==
    LET st == WhileLoop(src, LoopState(pos, brace_count))
    IN  IF st.brace_count > 0 THEN -1 ELSE st.pos

\* the brace loop from offset pos on: the final pos
ScanBraces(src, pos, brace_count) ==
    WhileLoop(src, LoopState(pos, brace_count)).pos

\* faulty variant of Preview that truncates from 200 characters on;
\* C8_PreviewTruncation tells it from the code
PreviewFromLimit(content) ==
    IF Len(content) >= PREVIEW_LIMIT
    THEN SubSeq(content, 1, PREVIEW_LIMIT) \o Ellipsis
    ELSE content

\* content[:200] + "..." if len(content) > 200 else content
Preview(content) ==
    IF Len(content) > PREVIEW_LIMIT
    THEN SubSeq(content, 1, PREVIEW_LIMIT) \o Ellipsis
    ELSE content

\* the descriptor appended for one match
Cell(src, m) ==
    LET pos == ScanBraces(src, m.end, 1)
        content == SubSeq(src, m.start + 1, pos)
    IN  [name |-> m.name,
         dependencies |-> Dependencies(m.deps_str),
         start |-> m.start,
         end |-> pos,
         preview |-> Preview(content)]

extract_cells(src) ==
    LET ms == finditer(src, 1)
    IN  [k \in 1..Len(ms) |-> Cell(src, ms[k])]

(***************************************************************************)
(* The callbacks fed to the parser: SpecParser feeds it the events of      *)
(* module blocks and of other elements, SpecFiles the events of file       *)
(* blocks with every subset of their attributes.                           *)
(***************************************************************************)
Idle == "idle"

TypeModule == <<"type", "lope-module">>
TypeFile == <<"type", "lope-file">>

ModuleAttrLists ==
    {<<TypeModule>>, <<TypeModule, <<"id", "m1">>>>, <<<<"id", "m2">>, TypeModule>>}

FileAttrPairs ==
    <<<<"id", "f1">>, <<"module", "m1">>, <<"file", "a.png">>, <<"mime", "image/png">>>>

FileAttrNames == {"id", "module", "file", "mime"}

HasName(S, pair) == pair[1] \in S

FileAttrLists ==
    {<<TypeFile>> \o SelectSeq(FileAttrPairs, LAMBDA pair : HasName(S, pair)) :
        S \in SUBSET FileAttrNames}

StartEvents(mode) ==
    IF mode = "feed"
    THEN {StartEv("script", a) : a \in ModuleAttrLists}
         \cup {StartEv("script", <<TypeFile, <<"id", "m1">>>>),
               StartEv("div", <<TypeModule, <<"id", "m1">>>>)}
    ELSE {StartEv("script", a) : a \in FileAttrLists}
         \cup {StartEv("script", <<TypeModule>>)}

EndEvents(mode) ==
    IF mode = "feed" THEN {EndEv("script"), EndEv("div")} ELSE {EndEv("script")}

DataEvents == {DataEv(<<"x">>), DataEv(<<"y", "z">>)}

EventBound(mode) == IF mode = "feed" THEN MaxEvents ELSE MaxFileEvents

Feeding == pc \in {"feed", "feed_files"} /\ Len(events) < EventBound(pc)

UnchangedRest ==
    UNCHANGED <<module_source, cells, argv, stdout, exit_code, html_files,
                manifest, next_file>>

StartTag ==
    /\ Feeding
    /\ \E e \in StartEvents(pc) :
          /\ parser' = handle_starttag(parser, e.tag, e.attrs)
          /\ events' = Append(events, e)
    /\ UNCHANGED pc
    /\ UnchangedRest

EndTag ==
    /\ Feeding
    /\ \E e \in EndEvents(pc) :
          /\ parser' = handle_endtag(parser, e.tag)
          /\ events' = Append(events, e)
    /\ UNCHANGED pc
    /\ UnchangedRest

Data ==
    /\ Feeding
    /\ \E e \in DataEvents :
          /\ parser' = handle_data(parser, e.data)
          /\ events' = Append(events, e)
    /\ UNCHANGED pc
    /\ UnchangedRest

InitIdle ==
    /\ parser = NewParser
    /\ events = <<>>
    /\ module_source = <<>>
    /\ cells = <<>>
    /\ argv = <<>>
    /\ stdout = <<>>
    /\ exit_code = Idle
    /\ html_files = <<>>
    /\ manifest = Idle
    /\ next_file = 0

InitParser == InitIdle /\ pc = "feed"

InitFiles == InitIdle /\ pc = "feed_files"

NextParser == StartTag \/ EndTag \/ Data

SpecParser == InitParser /\ [][NextParser]_vars

SpecFiles == InitFiles /\ [][NextParser]_vars

(***************************************************************************)
(* What the history of callbacks says, read off the events themselves.     *)
(***************************************************************************)
HasAttr(e, k) == \E i \in DOMAIN e.attrs : e.attrs[i][1] = k

AttrVal(e, k) == e.attrs[CHOOSE i \in DOMAIN e.attrs : e.attrs[i][1] = k][2]

AttrOr(e, k, default) == IF HasAttr(e, k) THEN AttrVal(e, k) ELSE default

IsScriptOpen(e, type) ==
    e.ev = "start" /\ e.tag = "script" /\ AttrOr(e, "type", "") = type

IsScriptClose(e) == e.ev = "end" /\ e.tag = "script"

OnlyData(i, j) == \A k \in (i + 1)..(j - 1) : events[k].ev = "data"

\* events i..j are one well-formed block of the given type: its open event,
\* text data only, its close event
Block(type, i, j) ==
    /\ i < j
    /\ IsScriptOpen(events[i], type)
    /\ IsScriptClose(events[j])
    /\ OnlyData(i, j)

Blocks(type) ==
    {b \in (DOMAIN events) \X (DOMAIN events) : Block(type, b[1], b[2])}

ModuleBlocks == Blocks("lope-module")
FileBlocks == Blocks("lope-file")

BlockId(b) == AttrOr(events[b[1]], "id", "unknown")

\* the text of the data events strictly between events i and j, in order
RECURSIVE TextBetween(_, _)
TextBetween(i, j) ==
    IF i + 1 >= j THEN <<>>
    ELSE (IF events[i + 1].ev = "data" THEN events[i + 1].data ELSE <<>>)
         \o TextBetween(i + 1, j)

BlockText(b) == TextBetween(b[1], b[2])

LastOfItsId(b) ==
    \A c \in ModuleBlocks : BlockId(c) = BlockId(b) => c[2] <= b[2]

(***************************************************************************)
(* C2: a document with N well-formed module blocks of pairwise distinct    *)
(* ids leaves exactly N entries in the modules mapping; when blocks share  *)
(* an id the mapping holds one entry for it, the text of the latest block. *)
(***************************************************************************)
C2_ModulesLastWriteWins ==
    /\ (\A b, c \in ModuleBlocks : b # c => BlockId(b) # BlockId(c))
          => Cardinality(DOMAIN parser.modules) = Cardinality(ModuleBlocks)
    /\ Cardinality(DOMAIN parser.modules)
          = Cardinality({BlockId(b) : b \in ModuleBlocks})
    /\ \A b \in ModuleBlocks :
          LastOfItsId(b) =>
             /\ BlockId(b) \in DOMAIN parser.modules
             /\ parser.modules[BlockId(b)] = BlockText(b)

C2_Witness ==
    \E b, c \in ModuleBlocks :
       /\ b[2] < c[1]
       /\ BlockId(b) = BlockId(c)
       /\ BlockText(b) # BlockText(c)
       /\ LastOfItsId(c)
       /\ DOMAIN parser.modules = {BlockId(c)}
       /\ parser.modules[BlockId(c)] = BlockText(c)

(***************************************************************************)
(* C9: every closed file block, whichever of id, module, file and mime it  *)
(* lacks, has appended exactly one record to files, in which an absent     *)
(* field is the empty string and size is the length of the block's text;   *)
(* a closed module block without an id is recorded under "unknown".        *)
(***************************************************************************)
FileBlockNumber(b) == Cardinality({c \in FileBlocks : c[2] <= b[2]})

C9_MissingAttributesDefault ==
    /\ Len(parser.files) = Cardinality(FileBlocks)
    /\ \A b \in FileBlocks :
          LET rec == parser.files[FileBlockNumber(b)]
              open == events[b[1]]
          IN  /\ rec.id = AttrOr(open, "id", "")
              /\ rec.module = AttrOr(open, "module", "")
              /\ rec.file = AttrOr(open, "file", "")
              /\ rec.mime = AttrOr(open, "mime", "")
              /\ rec.size = Len(BlockText(b))
    /\ \A b \in ModuleBlocks :
          (~HasAttr(events[b[1]], "id") /\ LastOfItsId(b)) =>
             /\ "unknown" \in DOMAIN parser.modules
             /\ parser.modules["unknown"] = BlockText(b)

C9_Witness ==
    \E b \in FileBlocks :
       /\ ~HasAttr(events[b[1]], "id")
       /\ ~HasAttr(events[b[1]], "file")
       /\ HasAttr(events[b[1]], "mime")
       /\ BlockText(b) = <<"y", "z">>
       /\ Len(parser.files) = 1
       /\ parser.files[1].id = "" /\ parser.files[1].file = ""
       /\ parser.files[1].mime = "image/png"
       /\ parser.files[1].size = 2

(***************************************************************************)
(* C10, as stated: on every close event of a script element whose open     *)
(* event carried the module type, the mapping entry of its id is the       *)
(* concatenation of all text data events between the open and the close    *)
(* event, whatever other events lie between them; and text data outside a  *)
(* script element is in no recorded content.                               *)
(***************************************************************************)
NoScriptEventBetween(i, j) ==
    \A k \in (i + 1)..(j - 1) : events[k].ev = "data" \/ events[k].tag # "script"

RecordedFromBlocks ==
    \A id \in DOMAIN parser.modules :
       \E b \in ModuleBlocks : BlockId(b) = id /\ parser.modules[id] = BlockText(b)

C10_AnyEventSequence ==
    LET n == Len(events)
    IN  /\ (n > 0 /\ IsScriptClose(events[n])) =>
              \A i \in 1..(n - 1) :
                 (IsScriptOpen(events[i], "lope-module") /\ NoScriptEventBetween(i, n))
                    => LET id == AttrOr(events[i], "id", "unknown")
                       IN  /\ id \in DOMAIN parser.modules
                           /\ parser.modules[id] = TextBetween(i, n)
        /\ RecordedFromBlocks

(***************************************************************************)
(* C10, amended: the same, for a close event that only text data events    *)
(* separate from the element's open event.                                 *)
(***************************************************************************)
C10_OnlyDataBetween ==
    LET n == Len(events)
    IN  /\ (n > 0 /\ IsScriptClose(events[n])) =>
              \A i \in 1..(n - 1) :
                 Block("lope-module", i, n)
                    => LET id == AttrOr(events[i], "id", "unknown")
                       IN  /\ id \in DOMAIN parser.modules
                           /\ parser.modules[id] = TextBetween(i, n)
        /\ RecordedFromBlocks

C10_Witness ==
    LET n == Len(events)
    IN  /\ n = 5
        /\ events[1].ev = "data"
        /\ Block("lope-module", 2, n)
        /\ HasAttr(events[2], "id")
        /\ TextBetween(2, n) = <<"y", "z", "x">>
        /\ parser.modules = Put(EmptyDict, AttrVal(events[2], "id"), <<"y", "z", "x">>)

(***************************************************************************)
(* extract_cells applied to module texts: a cell header followed by every  *)
(* short body over braces and a letter, one cell after (or inside)         *)
(* another, every short parameter list, bodies around the preview limit,   *)
(* and texts the pattern does not match.                                   *)
(***************************************************************************)
SeqsUpTo(A, n) == UNION {[1..k -> A] : k \in 0..n}

Pad(n) == [i \in 1..n |-> "r"]

\* const _a=function(){
Header1 ==
    KwConst \o <<" ", "_", "a", "=">> \o KwFunction \o <<"(", ")", "{">>

\* const _y = function* g (a, b) {
Header2 ==
    KwConst \o <<" ", "_", "y", " ", "=", " ">> \o KwFunction
    \o <<"*", " ", "g", " ", "(", "a", ",", " ", "b", ")", " ", "{">>

\* const _p=function(
ParamHeader == KwConst \o <<" ", "_", "p", "=">> \o KwFunction \o <<"(">>

BodyTexts ==
    {h \o b : h \in {Header1, Header2}, b \in SeqsUpTo({"{", "}", "r"}, MaxBody)}

TwoCellTexts ==
    {Header1 \o b \o Header2 \o c :
        b \in SeqsUpTo({"{", "}"}, 2), c \in SeqsUpTo({"{", "}"}, 2)}

ParamTexts ==
    {ParamHeader \o ps \o <<")", "{", "}">> :
        ps \in SeqsUpTo({"a", "b", ",", " "}, MaxParams)}

PreviewTexts ==
    {Header1 \o Pad(n) \o close :
        n \in (PREVIEW_LIMIT - Len(Header1) - 1 - PadSlack)
                ..(PREVIEW_LIMIT - Len(Header1) - 1 + PadSlack),
        close \in {<<"}">>, <<"{">>}}

\* const a=function(){}   const_a=function(){}   const _=function(){}
UnmatchedTexts ==
    {KwConst \o <<" ", "a", "=">> \o KwFunction \o <<"(", ")", "{", "}">>,
     KwConst \o <<"_", "a", "=">> \o KwFunction \o <<"(", ")", "{", "}">>,
     KwConst \o <<" ", "_", "=">> \o KwFunction \o <<"(", ")", "{", "}">>,
     <<>>}

CellTexts ==
    BodyTexts \cup TwoCellTexts \cup ParamTexts \cup PreviewTexts \cup UnmatchedTexts

InitCells ==
    /\ parser = NewParser
    /\ events = <<>>
    /\ module_source \in CellTexts
    /\ cells = <<>>
    /\ argv = <<>>
    /\ stdout = <<>>
    /\ exit_code = Idle
    /\ html_files = <<>>
    /\ manifest = Idle
    /\ next_file = 0
    /\ pc = "call"

ExtractCells ==
    /\ pc = "call"
    /\ cells' = extract_cells(module_source)
    /\ pc' = "done"
    /\ UNCHANGED <<parser, events, module_source, argv, stdout, exit_code,
                   html_files, manifest, next_file>>

NextCells == ExtractCells

SpecCells == InitCells /\ [][NextCells]_vars

(***************************************************************************)
(* What the text says about a cell, by counting braces in index sets.      *)
(***************************************************************************)
Matches == finditer(module_source, 1)

\* the depth after the characters at offsets from..(upto - 1), the matched
\* opening brace counting 1
DepthAt(from, upto) ==
    1 + Cardinality({i \in (from + 1)..upto : module_source[i] = "{"})
      - Cardinality({i \in (from + 1)..upto : module_source[i] = "}"})

\* the end offsets at which the depth is 0
ZeroDepthEnds(from) ==
    {e \in (from + 1)..Len(module_source) : DepthAt(from, e) = 0}

Balanced(from) == ZeroDepthEnds(from) # {}

FirstZeroDepthEnd(from) ==
    CHOOSE e \in ZeroDepthEnds(from) : \A f \in ZeroDepthEnds(from) : e <= f

Returned == pc = "done" /\ Len(cells) = Len(Matches)

CellContent(k) == SubSeq(module_source, cells[k].start + 1, cells[k].end)

(***************************************************************************)
(* C1: when the braces after the matched opening brace are balanced, the   *)
(* cell ends right after the closing brace that first brings the depth to  *)
(* 0, also when inner braces close before it, and text[start:end] runs     *)
(* from the start of the match to that brace.                              *)
(***************************************************************************)
C1_EndAfterBalancingBrace ==
    pc = "done" =>
       /\ Len(cells) = Len(Matches)
       /\ \A k \in DOMAIN cells :
             Balanced(Matches[k].end) =>
                /\ cells[k].end = FirstZeroDepthEnd(Matches[k].end)
                /\ cells[k].start = Matches[k].start
                /\ module_source[cells[k].end] = "}"
                /\ SubSeq(CellContent(k), 1, 5) = KwConst

C1_Witness ==
    /\ Returned
    /\ \E k \in DOMAIN cells :
          /\ Balanced(Matches[k].end)
          /\ cells[k].end < Len(module_source)
          /\ \E i \in (Matches[k].end + 1)..(cells[k].end - 1) :
                module_source[i] = "}"
          /\ DepthAt(Matches[k].end, cells[k].end) = 0

(***************************************************************************)
(* C6: when the matched opening brace is never balanced, the cell is       *)
(* returned all the same and its end offset is the length of the text.     *)
(***************************************************************************)
C6_UnbalancedEndsAtLength ==
    pc = "done" =>
       /\ Len(cells) = Len(Matches)
       /\ \A k \in DOMAIN cells :
             ~Balanced(Matches[k].end) =>
                /\ cells[k].end = Len(module_source)
                /\ cells[k].name = Matches[k].name
                /\ DepthAt(Matches[k].end, cells[k].end) > 0

C6_Witness ==
    /\ Returned
    /\ \E k \in DOMAIN cells :
          /\ ~Balanced(Matches[k].end)
          /\ cells[k].end = Len(module_source)
          /\ cells[k].end > Matches[k].end + 2
          /\ \E i \in (Matches[k].end + 1)..Len(module_source) :
                module_source[i] = "}"
          /\ module_source[Len(module_source)] = "r"

(***************************************************************************)
(* C7: the dependency list is the parameter list split at its commas, each *)
(* piece without its surrounding whitespace, the empty pieces left out,    *)
(* the others in their order.                                              *)
(***************************************************************************)
\* the pieces of s, each named by the index before its first character
PieceStarts(s) == {0} \cup {i \in 1..Len(s) : s[i] = ","}

PieceEnd(s, b) ==
    LET stops == {c \in (b + 1)..(Len(s) + 1) : c = Len(s) + 1 \/ s[c] = ","}
    IN  CHOOSE c \in stops : \A d \in stops : c <= d

Trimmed(s, b) ==
    LET inside == {i \in (b + 1)..(PieceEnd(s, b) - 1) : ~IsSpace(s[i])}
    IN  IF inside = {} THEN <<>>
        ELSE SubSeq(s, CHOOSE i \in inside : \A j \in inside : i <= j,
                       CHOOSE i \in inside : \A j \in inside : i >= j)

ExpectedDependencies(s) ==
    LET kept == {b \in PieceStarts(s) : Trimmed(s, b) # <<>>}
    IN  [n \in 1..Cardinality(kept) |->
            Trimmed(s, CHOOSE b \in kept :
                          Cardinality({c \in kept : c <= b}) = n)]

C7_DependenciesSplitTrimFilter ==
    pc = "done" =>
       /\ Len(cells) = Len(Matches)
       /\ \A k \in DOMAIN cells :
             cells[k].dependencies = ExpectedDependencies(Matches[k].deps_str)

C7_Witness ==
    /\ Returned
    /\ \E k \in DOMAIN cells :
          /\ Matches[k].deps_str = <<"a", ",", " ", ",", " ", "b">>
          /\ cells[k].dependencies = <<<<"a">>, <<"b">>>>

(***************************************************************************)
(* C8: the preview is the cell text itself when that has at most 200       *)
(* characters, and its first 200 characters followed by "..." when it has  *)
(* more.                                                                   *)
(***************************************************************************)
C8_PreviewTruncation ==
    pc = "done" =>
       \A k \in DOMAIN cells :
          LET content == CellContent(k)
              preview == cells[k].preview
          IN  /\ Len(content) <= 200 => preview = content
              /\ Len(content) > 200 =>
                    /\ Len(preview) = 203
                    /\ SubSeq(preview, 1, 200) = SubSeq(content, 1, 200)
                    /\ SubSeq(preview, 201, 203) = <<".", ".", ".">>

C8_Witness ==
    /\ Returned
    /\ \E k \in DOMAIN cells :
          /\ Len(CellContent(k)) = 201
          /\ Len(cells[k].preview) = 203
          /\ cells[k].preview[203] = "."
          /\ cells[k].preview[200] = "r"

(***************************************************************************)
(* The commands.  A printed line is a record: its kind, what it is about,  *)
(* the items it lists and the count it shows.                              *)
(***************************************************************************)
Line(kind, what, items, more) ==
    [kind |-> kind, what |-> what, items |-> items, more |-> more]

\* the module ids of the model in sorted() order
IdOrder == <<"m1", "m2", "unknown">>

InSet(S, x) == x \in S

\* sorted(d.keys())
SortedKeys(d) == SelectSeq(IdOrder, LAMBDA x : InSet(DOMAIN d, x))

\* sub in s, for strings
In(sub, s) ==
    \E i \in 1..(Len(s) - Len(sub) + 1) : SubSeq(s, i, i + Len(sub) - 1) = sub

Names(cs) == [k \in DOMAIN cs |-> cs[k].name]

\* the line list_cells prints for a cell
CellLine(cell) ==
    LET deps == cell.dependencies
    IN  IF Len(deps) > 3
        THEN Line("cell", cell.name, SubSeq(deps, 1, 3), Len(deps) - 3)
        ELSE Line("cell", cell.name, deps, 0)

list_cells(p, module) ==
    IF module \notin DOMAIN p.modules
    THEN [stdout |-> <<Line("error_module", module, <<>>, 0),
                       Line("available_modules", "", SortedKeys(p.modules), 0)>>,
          exit_code |-> 1]
    ELSE LET cs == extract_cells(p.modules[module])
         IN  [stdout |-> <<Line("cells_header", module, <<>>, 0)>>
                         \o [k \in DOMAIN cs |-> CellLine(cs[k])],
              exit_code |-> 0]

\* faulty variant of FirstMatch that prefers a cell of exactly the name;
\* C5_FirstMatchInScanOrder tells it from the code
FirstMatchPrefersExact(cs, cell_name, k) ==
    LET exact == {j \in k..Len(cs) : cs[j].name = cell_name}
        containing == {j \in k..Len(cs) : In(cell_name, cs[j].name)}
    IN  IF exact # {} THEN CHOOSE j \in exact : \A i \in exact : j <= i
        ELSE IF containing # {}
        THEN CHOOSE j \in containing : \A i \in containing : j <= i
        ELSE 0

\* the for loop of read_cell: the index of the first cell from k on whose
\* name is the query or contains it, 0 when the loop runs out
RECURSIVE FirstMatch(_, _, _)
FirstMatch(cs, cell_name, k) ==
    IF k > Len(cs) THEN 0
    ELSE IF cs[k].name = cell_name \/ In(cell_name, cs[k].name) THEN k
    ELSE FirstMatch(cs, cell_name, k + 1)

read_cell(p, module, cell_name) ==
    IF module \notin DOMAIN p.modules
    THEN [stdout |-> <<Line("error_module", module, <<>>, 0)>>, exit_code |-> 1]
    ELSE LET source == p.modules[module]
             cs == extract_cells(source)
             k == FirstMatch(cs, cell_name, 1)
         IN  IF k # 0
             THEN [stdout |-> <<Line("source",
                                     SubSeq(source, cs[k].start + 1, cs[k].end),
                                     <<>>, 0)>>,
                   exit_code |-> 0]
             ELSE [stdout |-> <<Line("error_cell", cell_name, <<module>>, 0),
                                Line("available_cells", "", Names(cs), 0)>>,
                   exit_code |-> 1]

read_module(p, module) ==
    IF module \notin DOMAIN p.modules
    THEN [stdout |-> <<Line("error_module", module, <<>>, 0)>>, exit_code |-> 1]
    ELSE [stdout |-> <<Line("source", p.modules[module], <<>>, 0)>>,
          exit_code |-> 0]

(***************************************************************************)
(* A command run on one document.  A document is the callbacks its markup  *)
(* makes: a script element's text arrives as data between its start and    *)
(* its end tag.                                                            *)
(***************************************************************************)
ModuleBlockOf(id, text) ==
    <<StartEv("script", <<TypeModule, <<"id", id>>>>), DataEv(text), EndEv("script")>>

NameA == <<"_", "a">>
NameAB == <<"_", "a", "b">>
NameB == <<"_", "b">>

\* const NAME=function(PARAMS){BODY}
CellText(name, params, body) ==
    KwConst \o <<" ">> \o name \o <<"=">> \o KwFunction
    \o <<"(">> \o params \o <<")", "{">> \o body \o <<"}">>

CmdTexts ==
    {CellText(NameAB, <<>>, <<>>) \o CellText(NameA, <<"a">>, <<"{", "}">>),
     CellText(NameA, <<>>, <<>>) \o <<"\n">> \o CellText(NameAB, <<>>, <<"r">>),
     CellText(NameB, <<"a", ",", "b", ",", "a", ",", "b">>, <<"r">>),
     <<"r">>}

DocsOfBlocks(ids, texts, n) ==
    {Join(bs) : bs \in SeqsUpTo({ModuleBlockOf(id, t) : id \in ids, t \in texts}, n)}

CmdDocs == DocsOfBlocks({"m1", "m2"}, CmdTexts, MaxBlocks)

Queries == SeqsUpTo({"_", "a", "b"}, MaxQuery)

Argvs ==
    {[cmd |-> c, module |-> m, cell_name |-> <<>>] :
        c \in {"list-cells", "read-module"}, m \in {"m1", "m2", "m3"}}
    \cup {[cmd |-> "read-cell", module |-> m, cell_name |-> q] :
             m \in {"m1", "m2", "m3"}, q \in Queries}

HtmlFile(dir, stem, doc) == [dir |-> dir, stem |-> stem, doc |-> doc]

InitCmd ==
    /\ parser = NewParser
    /\ events = <<>>
    /\ module_source = <<>>
    /\ cells = <<>>
    /\ argv \in Argvs
    /\ stdout = <<>>
    /\ exit_code = "running"
    /\ html_files \in {<<HtmlFile("notebooks", "foo", d)>> : d \in CmdDocs}
    /\ manifest = Idle
    /\ next_file = 0
    /\ pc = "cmd"

\* the command prints, and the process exits with the status
Exit(p, result) ==
    /\ parser' = p
    /\ stdout' = result.stdout
    /\ exit_code' = result.exit_code
    /\ pc' = "exited"
    /\ UNCHANGED <<events, module_source, cells, argv, html_files, manifest,
                   next_file>>

ListCells ==
    /\ pc = "cmd" /\ argv.cmd = "list-cells"
    /\ LET p == parse_notebook(html_files[1].doc)
       IN  Exit(p, list_cells(p, argv.module))

ReadCell ==
    /\ pc = "cmd" /\ argv.cmd = "read-cell"
    /\ LET p == parse_notebook(html_files[1].doc)
       IN  Exit(p, read_cell(p, argv.module, argv.cell_name))

ReadModule ==
    /\ pc = "cmd" /\ argv.cmd = "read-module"
    /\ LET p == parse_notebook(html_files[1].doc)
       IN  Exit(p, read_module(p, argv.module))

NextCmd == ListCells \/ ReadCell \/ ReadModule

SpecCmd == InitCmd /\ [][NextCmd]_vars

Kinds == {stdout[i].kind : i \in DOMAIN stdout}

(***************************************************************************)
(* C3: list-cells, read-cell and read-module, asked for a module id that   *)
(* is not in the modules mapping, print an error and the available module  *)
(* ids, print no module or cell content, and exit non-zero.                *)
(***************************************************************************)
C3_MissingModuleListsAvailable ==
    (pc = "exited" /\ argv.module \notin DOMAIN parser.modules) =>
       /\ exit_code = 1
       /\ "error_module" \in Kinds
       /\ \E i \in DOMAIN stdout :
             /\ stdout[i].kind = "available_modules"
             /\ stdout[i].items = SortedKeys(parser.modules)
       /\ Kinds \cap {"source", "cell", "cells_header"} = {}

(***************************************************************************)
(* C5: read-cell prints the text of the first cell in scan order whose     *)
(* name is the query or contains it, an exact match later in the order     *)
(* not being preferred; when no name does, it prints an error and the      *)
(* cell names and exits non-zero.                                          *)
(***************************************************************************)
C5_FirstMatchInScanOrder ==
    (pc = "exited" /\ argv.cmd = "read-cell"
        /\ argv.module \in DOMAIN parser.modules) =>
       LET source == parser.modules[argv.module]
           cs == extract_cells(source)
           hits == {k \in DOMAIN cs : In(argv.cell_name, cs[k].name)}
       IN  IF hits # {}
           THEN LET first == CHOOSE k \in hits : \A j \in hits : k <= j
                IN  /\ Len(stdout) = 1
                    /\ stdout[1].kind = "source"
                    /\ stdout[1].what
                          = SubSeq(source, cs[first].start + 1, cs[first].end)
                    /\ exit_code = 0
           ELSE /\ Len(stdout) = 2
                /\ stdout[1].kind = "error_cell"
                /\ stdout[1].what = argv.cell_name
                /\ stdout[2].kind = "available_cells"
                /\ stdout[2].items = Names(cs)
                /\ exit_code = 1

C5_Witness ==
    /\ pc = "exited" /\ argv.cmd = "read-cell"
    /\ argv.module \in DOMAIN parser.modules
    /\ argv.cell_name = NameA
    /\ LET cs == extract_cells(parser.modules[argv.module])
       IN  /\ Len(cs) = 2
           /\ cs[1].name = NameAB
           /\ cs[2].name = NameA
           /\ stdout = <<Line("source", CellText(NameAB, <<>>, <<>>), <<>>, 0)>>

(***************************************************************************)
(* generate_manifest.  html_files is the list the loop iterates over: the  *)
(* documents of lopecode/notebooks, then those of lopecode/src, those of   *)
(* one directory in any order and under distinct names.  The size_mb entry *)
(* of a notebook (the size of the file on disk) is left out.               *)
(***************************************************************************)
Stems == {"foo", "bar"}

ManifestText == CellText(NameA, <<"a">>, <<>>) \o CellText(NameB, <<>>, <<"r">>)

FileBlockDoc ==
    <<StartEv("script", <<TypeFile, <<"id", "f1">>>>), DataEv(<<"x">>), EndEv("script")>>

\* no module; one module; a module defined twice; two modules; a file block
ManifestDocs ==
    {<<>>,
     ModuleBlockOf("m1", ManifestText),
     ModuleBlockOf("m1", ManifestText) \o ModuleBlockOf("m1", <<"r">>),
     ModuleBlockOf("m1", ManifestText) \o ModuleBlockOf("m2", ManifestText),
     FileBlockDoc}

DirRank(d) == IF d = "notebooks" THEN 1 ELSE 2

\* list(notebooks_dir.glob("*.html")) + list(src_dir.glob("*.html"))
GlobLists ==
    {fs \in SeqsUpTo({<<d, st>> : d \in {"notebooks", "src"}, st \in Stems}, MaxFiles) :
        \A i, j \in DOMAIN fs :
           i < j => /\ fs[i] # fs[j]
                    /\ DirRank(fs[i][1]) <= DirRank(fs[j][1])}

HtmlFileLists ==
    UNION {{[i \in DOMAIN fs |-> HtmlFile(fs[i][1], fs[i][2], ds[i])] :
               ds \in [DOMAIN fs -> ManifestDocs]} : fs \in GlobLists}

EmptyManifest == [notebooks |-> EmptyDict, module_index |-> EmptyDict]

InitManifest ==
    /\ parser = NewParser
    /\ events = <<>>
    /\ module_source = <<>>
    /\ cells = <<>>
    /\ argv = <<>>
    /\ stdout = <<>>
    /\ exit_code = "running"
    /\ html_files \in HtmlFileLists
    /\ manifest = EmptyManifest
    /\ next_file = 1
    /\ pc = "manifest"

\* modules_info of one document
ModulesInfo(p) ==
    [id \in DOMAIN p.modules |->
        LET cs == extract_cells(p.modules[id])
        IN  [cells |-> Names(cs), cell_count |-> Len(cs)]]

\* module_index after the inner loop over the modules of one document
UpdateModuleIndex(index, p, basename) ==
    [id \in (DOMAIN index) \cup (DOMAIN p.modules) |->
        IF id \in DOMAIN p.modules
        THEN Append(Get(index, id, <<>>), basename)
        ELSE index[id]]

\* one iteration of the loop over the documents
ProcessFile(m, html_file) ==
    LET p == parse_notebook(html_file.doc)
        basename == html_file.stem
        relpath == <<"lopecode", html_file.dir, html_file.stem>>
    IN  [notebooks |->
            Put(m.notebooks, basename,
                [path |-> relpath,
                 modules |-> ModulesInfo(p),
                 file_attachments |-> Len(p.files)]),
         module_index |-> UpdateModuleIndex(m.module_index, p, basename)]

ProcessNextFile ==
    /\ pc = "manifest"
    /\ next_file <= Len(html_files)
    /\ manifest' = ProcessFile(manifest, html_files[next_file])
    /\ parser' = parse_notebook(html_files[next_file].doc)
    /\ next_file' = next_file + 1
    /\ UNCHANGED <<events, module_source, cells, argv, stdout, exit_code,
                   html_files, pc>>

WriteManifest ==
    /\ pc = "manifest"
    /\ next_file > Len(html_files)
    /\ stdout' = <<Line("manifest_written", "", <<>>, 0),
                   Line("notebooks", "", <<>>, Cardinality(DOMAIN manifest.notebooks)),
                   Line("unique_modules", "", <<>>,
                        Cardinality(DOMAIN manifest.module_index))>>
    /\ exit_code' = 0
    /\ pc' = "written"
    /\ UNCHANGED <<parser, events, module_source, cells, argv, html_files,
                   manifest, next_file>>

NextManifest == ProcessNextFile \/ WriteManifest

SpecManifest == InitManifest /\ [][NextManifest]_vars

\* the module ids a document defines, read off its markup
DefinedIds(doc) ==
    {AttrOr(doc[i], "id", "unknown") :
        i \in {j \in DOMAIN doc : IsScriptOpen(doc[j], "lope-module")}}

Occurrences(list, x) == Cardinality({i \in DOMAIN list : list[i] = x})

(***************************************************************************)
(* C4: after generate_manifest has processed the documents of both         *)
(* directories, each list of module_index holds the basename of a document *)
(* exactly once for a module id the document defines, no list holds a      *)
(* basename twice, and notebooks has one entry per processed document.     *)
(***************************************************************************)
C4_ModuleIndexNoDuplicates ==
    pc = "written" =>
       /\ \A id \in DOMAIN manifest.module_index :
             \A i, j \in DOMAIN manifest.module_index[id] :
                i # j => manifest.module_index[id][i] # manifest.module_index[id][j]
       /\ \A f \in DOMAIN html_files :
             \A id \in DefinedIds(html_files[f].doc) :
                /\ id \in DOMAIN manifest.module_index
                /\ Occurrences(manifest.module_index[id], html_files[f].stem) = 1
       /\ Cardinality(DOMAIN manifest.notebooks) = Len(html_files)

====
